---- MODULE Spec2Model ----
(***************************************************************************)
(* Model of ObjectCollection (src/__init__.py): a list subclass that       *)
(* broadcasts attribute access and calls over its elements, filters and    *)
(* maps them, and merges the elements' tree() mappings.                    *)
(*                                                                         *)
(* Python values are records [kind, v].  Mappings (dict) live in a heap,   *)
(* so that two references to one dict object are told from two equal       *)
(* dicts; a dict is the sequence of its entries in insertion order.        *)
(* Every operation returns an outcome [exc, ret, ...]: exc = "none" when   *)
(* it returns normally and the exception's type name when it raises.       *)
(***************************************************************************)
EXTENDS Integers, Sequences, FiniteSets, TLC

VARIABLES
  heap,    \* the dict objects: address -> sequence of entries [k, v]
  chain,   \* the expression being evaluated: chain[1] is the collection
           \* itself, chain[n+1] the result of an operation on chain[n]
  exc,     \* how the last operation ended: "none" or the exception raised
  last,    \* the last operation: what was called, with what, on which receiver
  calls,   \* the outcomes of the collection_tree() calls since the last append
  pre      \* the heap as it was before the last collection_tree() call

vars == <<heap, chain, exc, last, calls, pre>>

-----------------------------------------------------------------------------
(* Bounds of the model *)

MaxLen == 2       \* longest collection the broadcast operations are tried on
MaxElems == 3     \* longest collection collection_tree() is tried on
MaxChain == 2     \* operations chained on one collection (coll.b.c is two)
MaxCalls == 2     \* consecutive collection_tree() calls

-----------------------------------------------------------------------------
(* Python values *)

PyFalse == [kind |-> "bool", v |-> 0]
PyTrue == [kind |-> "bool", v |-> 1]
PyNone == [kind |-> "none", v |-> 0]
PyInt(n) == [kind |-> "int", v |-> n]
PyStr(s) == [kind |-> "str", v |-> s]
PyObj(attrs) == [kind |-> "obj", v |-> attrs]
PyMethod(f, self) == [kind |-> "method", v |-> [f |-> f, self |-> self]]
PyFunction(name) == [kind |-> "function", v |-> name]
PyDict(addr) == [kind |-> "dict", v |-> addr]
PyColl(items) == [kind |-> "coll", v |-> items]

Ok(value) == [exc |-> "none", ret |-> value]
Raise(type) == [exc |-> type, ret |-> PyNone]

\* bool(obj): the truth value the `if obj` and `not other` tests use
Truthy(h, obj) ==
  CASE obj.kind \in {"bool", "int"} -> obj.v # 0
    [] obj.kind = "none" -> FALSE
    [] obj.kind = "str" -> Len(obj.v) # 0
    [] obj.kind = "coll" -> Len(obj.v) # 0
    [] obj.kind = "dict" -> Len(h[obj.v]) # 0
    [] OTHER -> TRUE

\* str.capitalize() on the strings of the doctest
Capitalize(s) ==
  CASE s = "cheeze" -> "Cheeze"
    [] s = "mozarella" -> "Mozarella"
    [] OTHER -> s

\* the members of int and bool that are not dunder names
IntMethods == {"conjugate", "bit_length"}
IntData == {"real", "imag", "numerator", "denominator"}

IntMember(obj, name) ==
  CASE name \in {"real", "numerator"} -> PyInt(obj.v)
    [] name = "imag" -> PyInt(0)
    [] name = "denominator" -> PyInt(1)
    [] OTHER -> PyMethod(name, obj)

\* the names the class and its base, list, define: normal lookup finds them
\* and __getattr__ is not called
ClassNames ==
  {"filter", "apply", "collection_tree", "append", "__len__", "__call__",
   "__getattr__", "__init__"}

startswith(s, prefix) ==
  Len(s) >= Len(prefix) /\ SubSeq(s, 1, Len(prefix)) = prefix

endswith(s, suffix) ==
  Len(s) >= Len(suffix) /\ SubSeq(s, Len(s) - Len(suffix) + 1, Len(s)) = suffix

\* getattr(obj, name): the member `name` of an element, or AttributeError
getattr(obj, name) ==
  CASE obj.kind = "obj" ->
         IF name \in DOMAIN obj.v THEN Ok(obj.v[name]) ELSE Raise("AttributeError")
    [] obj.kind \in {"bool", "int"} ->
         IF name \in IntData \cup IntMethods
           THEN Ok(IntMember(obj, name)) ELSE Raise("AttributeError")
    [] obj.kind = "str" ->
         IF name = "capitalize"
           THEN Ok(PyMethod(name, obj)) ELSE Raise("AttributeError")
    [] OTHER -> Raise("AttributeError")

\* getattr(obj, name, default): only AttributeError is replaced by the default
getattr_default(obj, name, default) ==
  LET r == getattr(obj, name)
  IN IF r.exc = "AttributeError" THEN Ok(default) ELSE r

\* obj(*args): calling one element
call(obj, args) ==
  CASE obj.kind = "method" /\ obj.v.f = "tree" ->
         IF args = <<>> THEN Ok(PyDict(obj.v.self)) ELSE Raise("TypeError")
    [] obj.kind = "method" /\ obj.v.f = "tree_none" ->
         IF args = <<>> THEN Ok(PyNone) ELSE Raise("TypeError")
    [] obj.kind = "method" /\ obj.v.f = "capitalize" ->
         IF args = <<>> THEN Ok(PyStr(Capitalize(obj.v.self.v))) ELSE Raise("TypeError")
    [] obj.kind = "method" /\ obj.v.f = "conjugate" ->
         IF args = <<>> THEN Ok(PyInt(obj.v.self.v)) ELSE Raise("TypeError")
    [] obj.kind = "method" /\ obj.v.f = "bit_length" ->
         IF args = <<>>
           THEN Ok(PyInt(IF obj.v.self.v > 1 THEN 2 ELSE obj.v.self.v))
           ELSE Raise("TypeError")
    [] obj.kind = "function" /\ obj.v = "count" ->      \* lambda *args: len(args)
         Ok(PyInt(Len(args)))
    [] OTHER -> Raise("TypeError")

\* a list comprehension [e(obj) for obj in self]: the first exception ends it
Comprehension(outs) ==
  IF \E i \in DOMAIN outs : outs[i].exc # "none"
    THEN Raise(outs[CHOOSE i \in DOMAIN outs :
                      /\ outs[i].exc # "none"
                      /\ \A j \in 1..(i - 1) : outs[j].exc = "none"].exc)
    ELSE Ok([i \in DOMAIN outs |-> outs[i].ret])

\* ObjectCollection(object_list): a new list of the same references
ObjectCollection(object_list) == PyColl(object_list)

\* ObjectCollection([...]) around a comprehension that did not raise
Collect(out) == IF out.exc = "none" THEN Ok(ObjectCollection(out.ret)) ELSE out

\* the functions handed to filter and apply: a sequence <<p1, ..., pn>> is
\* lambda x: p1(x) and ... and pn(x)
Prim(h, p, x) ==
  CASE p = "ident" -> Ok(x)
    [] p = "has_b" -> Ok(IF getattr(x, "b").exc = "none" THEN PyTrue ELSE PyFalse)
    [] p = "get_c" -> getattr(x, "c")

RECURSIVE CallFunc(_, _, _)
CallFunc(h, f, x) ==
  LET r == Prim(h, f[1], x)
  IN IF Len(f) = 1 \/ r.exc # "none" \/ ~Truthy(h, r.ret)
       THEN r
       ELSE CallFunc(h, Tail(f), x)

-----------------------------------------------------------------------------
(* ObjectCollection.  Each method yields [exc, ret, self]: self is the     *)
(* receiver's contents after the call.                                     *)

With(out, self) == [exc |-> out.exc, ret |-> out.ret, self |-> self]

\* faulty variants of __getattr__: None for a missing member; falsy elements skipped
\* as __call__ skips them; no guard for dunder names
getattr_none_default(self, name) ==
  IF startswith(name, "__") /\ endswith(name, "__")
    THEN With(Raise("AttributeError"), self)
    ELSE With(Collect(Comprehension([i \in DOMAIN self.v |->
                 getattr_default(self.v[i], name, PyNone)])), self)

getattr_skip_falsy(self, name) ==
  IF startswith(name, "__") /\ endswith(name, "__")
    THEN With(Raise("AttributeError"), self)
    ELSE With(Collect(Comprehension([i \in DOMAIN self.v |->
                 IF Truthy(<<>>, self.v[i])
                   THEN getattr_default(self.v[i], name, PyFalse)
                   ELSE Ok(PyFalse)])), self)

getattr_unguarded(self, name) ==
  With(Collect(Comprehension([i \in DOMAIN self.v |->
         getattr_default(self.v[i], name, PyFalse)])), self)

__getattr__(self, name) ==
  IF startswith(name, "__") /\ endswith(name, "__")
    THEN With(Raise("AttributeError"), self)
    ELSE With(Collect(Comprehension([i \in DOMAIN self.v |->
                 getattr_default(self.v[i], name, PyFalse)])), self)

\* faulty variant of __call__: every element is called, truthy or not
call_every_element(h, self, args) ==
  With(Collect(Comprehension([i \in DOMAIN self.v |-> call(self.v[i], args)])),
       self)

__call__(h, self, args) ==
  With(Collect(Comprehension([i \in DOMAIN self.v |->
         IF Truthy(h, self.v[i]) THEN call(self.v[i], args) ELSE Ok(PyNone)])),
       self)

\* [obj for obj in self if filter_function(obj)]
RECURSIVE FilterLoop(_, _, _, _, _)
FilterLoop(h, items, f, i, acc) ==
  IF i > Len(items) THEN Ok(ObjectCollection(acc))
  ELSE LET r == CallFunc(h, f, items[i])
       IN IF r.exc # "none" THEN Raise(r.exc)
          ELSE FilterLoop(h, items, f, i + 1,
                          IF Truthy(h, r.ret) THEN Append(acc, items[i]) ELSE acc)

\* faulty variant of filter: the receiver is filtered in place
filter_in_place(h, self, filter_function) ==
  LET out == FilterLoop(h, self.v, filter_function, 1, <<>>)
  IN With(out, IF out.exc = "none" THEN out.ret ELSE self)

filter(h, self, filter_function) ==
  With(FilterLoop(h, self.v, filter_function, 1, <<>>), self)

apply(h, self, function) ==
  With(Collect(Comprehension([i \in DOMAIN self.v |->
         CallFunc(h, function, self.v[i])])), self)

\* self.name: the class's own names are found first, __getattr__ is the fallback
Lookup(self, name) ==
  IF name \in ClassNames
    THEN With(Ok(PyMethod(name, self)), self)
    ELSE __getattr__(self, name)

-----------------------------------------------------------------------------
(* The broadcast state machine: a collection is built by append, and an    *)
(* expression coll.op1.op2 is evaluated one operation at a time.           *)

\* the elements a caller puts in a collection
ObjBC == PyObj([b |-> PyObj([c |-> PyInt(1)]), c |-> PyInt(0)])
ObjC == PyObj("c" :> PyInt(3) @@ "__foo__" :> PyInt(1))
Elems ==
  {PyFalse, PyNone, PyInt(2), PyStr("cheeze"), PyFunction("count"), ObjBC, ObjC}

\* the member names a caller asks for
Names ==
  {"b", "c", "capitalize", "denominator", "conjugate",
   "__foo__", "__", "__len__", "__b"}

\* the argument lists of a call
ArgLists == {<<>>, <<PyInt(1)>>}

\* the functions given to filter and apply
Funcs == {<<"ident">>, <<"has_b">>, <<"get_c">>}

Frame(op, name, args, f, val) ==
  [op |-> op, name |-> name, args |-> args, f |-> f, val |-> val]

\* a record of an operation: val is the receiver it was called on
Op(op, name, args, f, recv) == Frame(op, name, args, f, recv)

Top == chain[Len(chain)]
Receiver == Top.val

\* the chain after an operation with outcome out: the receiver holds what the
\* operation left in it, and a result is pushed unless the operation raised
Step(frame, out) ==
  LET kept == [chain EXCEPT ![Len(chain)].val = out.self]
  IN /\ chain' = IF out.exc = "none" THEN Append(kept, frame) ELSE kept
     /\ exc' = out.exc
     /\ last' = [frame EXCEPT !.val = Receiver]
     /\ UNCHANGED <<heap, calls, pre>>

CanOperate == Len(chain) <= MaxChain /\ Receiver.kind = "coll"

Init ==
  /\ heap = <<>>
  /\ chain = <<Frame("new", "", <<>>, <<>>, ObjectCollection(<<>>))>>
  /\ exc = "none"
  /\ last = Op("new", "", <<>>, <<>>, ObjectCollection(<<>>))
  /\ calls = <<>>
  /\ pre = <<>>

\* an append ends the use of the earlier collection_tree() results: the
\* caller drops them, and only the elements' own dict objects stay
Kept(h) == [a \in {x \in DOMAIN h : x.o > 0} |-> h[a]]

\* oc.append(obj) on the collection itself
append(obj) ==
  /\ Len(chain) = 1
  /\ chain' = <<Frame("new", "", <<>>, <<>>, PyColl(Append(Receiver.v, obj)))>>
  /\ exc' = "none"
  /\ last' = Op("append", "", <<obj>>, <<>>, Receiver)
  /\ calls' = <<>>
  /\ pre' = <<>>
  /\ heap' = Kept(heap)

AppendElem(obj) == Len(chain) = 1 /\ Len(Receiver.v) < MaxLen /\ append(obj)

\* x.name
Access(name) ==
  /\ CanOperate
  /\ LET out == Lookup(Receiver, name)
     IN Step(Frame("getattr", name, <<>>, <<>>, out.ret), out)

\* x(*args)
Invoke(args) ==
  /\ CanOperate
  /\ LET out == __call__(heap, Receiver, args)
     IN Step(Frame("call", "", args, <<>>, out.ret), out)

\* x.filter(f)
Filter(f) ==
  /\ CanOperate
  /\ LET out == filter(heap, Receiver, f)
     IN Step(Frame("filter", "", <<>>, f, out.ret), out)

\* x.apply(f)
Apply(f) ==
  /\ CanOperate
  /\ LET out == apply(heap, Receiver, f)
     IN Step(Frame("apply", "", <<>>, f, out.ret), out)

\* the expression is done with; the next one starts from the collection
Done ==
  /\ Len(chain) > 1
  /\ chain' = <<chain[1]>>
  /\ exc' = "none"
  /\ last' = Op("new", "", <<>>, <<>>, chain[1].val)
  /\ UNCHANGED <<heap, calls, pre>>

Next ==
  \/ \E obj \in Elems : AppendElem(obj)
  \/ \E name \in Names : Access(name)
  \/ \E args \in ArgLists : Invoke(args)
  \/ \E f \in Funcs : Filter(f)
  \/ \E f \in Funcs : Apply(f)
  \/ Done

Spec == Init /\ [][Next]_vars

-----------------------------------------------------------------------------
(* Mappings.  A dict object is heap[addr], the sequence of its entries     *)
(* [k, v] in insertion order; v is a leaf value or PyDict(addr').          *)

HasKey(d, key) == \E i \in DOMAIN d : d[i].k = key

GetItem(d, key) == d[CHOOSE i \in DOMAIN d : d[i].k = key].v

\* d[key] = value
SetItem(d, key, value) ==
  IF HasKey(d, key)
    THEN [i \in DOMAIN d |-> IF d[i].k = key THEN [k |-> key, v |-> value] ELSE d[i]]
    ELSE Append(d, [k |-> key, v |-> value])

\* dict(): a new, empty dict object at an address no object has
NewAddr(h) ==
  [o |-> 0 - (Cardinality({a \in DOMAIN h : a.o < 0}) + 1), p |-> <<>>]

Merged(e, h) == [exc |-> e, heap |-> h]

RECURSIVE __merge_trees(_, _, _), MergeItems(_, _, _, _)

\* faulty variant of the loop: a mapping is copied when it is inserted
RECURSIVE merge_copying(_, _, _, _)
merge_copying(h, target, items, i) ==
  IF i > Len(items) THEN Merged("none", h)
  ELSE LET key == items[i].k
           value == items[i].v
           copy == NewAddr(h)
       IN IF target.kind # "dict" THEN Merged("TypeError", h)
          ELSE IF ~HasKey(h[target.v], key)
            THEN IF value.kind = "dict"
                   THEN merge_copying(
                          (copy :> h[value.v]) @@
                            [h EXCEPT ![target.v] = SetItem(@, key, PyDict(copy))],
                          target, items, i + 1)
                   ELSE merge_copying(
                          [h EXCEPT ![target.v] = SetItem(@, key, value)],
                          target, items, i + 1)
            ELSE LET r == __merge_trees(h, GetItem(h[target.v], key), value)
                 IN IF r.exc # "none" THEN r
                    ELSE merge_copying(r.heap, target, items, i + 1)

\* for key, value in other.items(): ... from the i-th item on
MergeItems(h, target, items, i) ==
  IF i > Len(items) THEN Merged("none", h)
  ELSE LET key == items[i].k
           value == items[i].v
       IN IF target.kind # "dict" THEN Merged("TypeError", h)   \* key not in target
          ELSE IF ~HasKey(h[target.v], key)
            THEN MergeItems([h EXCEPT ![target.v] = SetItem(@, key, value)],
                            target, items, i + 1)
            ELSE LET r == __merge_trees(h, GetItem(h[target.v], key), value)
                 IN IF r.exc # "none" THEN r
                    ELSE MergeItems(r.heap, target, items, i + 1)

\* faulty variant of __merge_trees: no early return for a falsy other
merge_without_guard(h, target, other) ==
  IF other.kind # "dict" THEN Merged("AttributeError", h)
  ELSE MergeItems(h, target, h[other.v], 1)

__merge_trees(h, target, other) ==
  IF ~Truthy(h, other) THEN Merged("none", h)
  ELSE IF other.kind # "dict" THEN Merged("AttributeError", h)   \* other.items()
  ELSE MergeItems(h, target, h[other.v], 1)

\* for tree in self.tree(): __merge_trees(collection_tree, tree)
RECURSIVE MergeAll(_, _, _, _)
MergeAll(h, target, trees, i) ==
  IF i > Len(trees) THEN Merged("none", h)
  ELSE LET r == __merge_trees(h, target, trees[i])
       IN IF r.exc # "none" THEN r ELSE MergeAll(r.heap, target, trees, i + 1)

\* yields [exc, ret, self, heap]
collection_tree(h, self) ==
  LET addr == NewAddr(h)
      h1 == (addr :> <<>>) @@ h
      attr == Lookup(self, "tree")
      trees == IF attr.exc = "none" THEN __call__(h1, attr.ret, <<>>) ELSE attr
      r == IF trees.exc = "none"
             THEN MergeAll(h1, PyDict(addr), trees.ret.v, 1)
             ELSE Merged(trees.exc, h1)
  IN [exc |-> r.exc,
      ret |-> IF r.exc = "none" THEN PyDict(addr) ELSE PyNone,
      self |-> self,
      heap |-> r.heap]

-----------------------------------------------------------------------------
(* The tree state machine: the caller appends elements, each with the      *)
(* mapping its tree() returns, and calls collection_tree().                *)

Keys == {"a", "b"}
TopKeys == {"a"}
Leaves == {PyInt(0), PyInt(1), PyInt(2)}

\* a mapping written out, before it is an object: entries [k, v] with v a
\* leaf or Lit(entries)
Lit(d) == [kind |-> "lit", v |-> d]

\* the dicts with keys in K and values in V, in every insertion order
DictsOver(K, V) ==
  UNION {{d \in [1..n -> [k : K, v : V]] :
            \A i, j \in 1..n : i # j => d[i].k # d[j].k} :
         n \in 0..Cardinality(K)}

\* the trees of the elements: {} or {"a": x}, x a leaf or a nested mapping
\* {} or {k: y}, y a leaf or {}
Nested == {d \in DictsOver(Keys, Leaves \cup {Lit(<<>>)}) : Len(d) <= 1}
TreeLits == DictsOver(TopKeys, Leaves \cup {Lit(d) : d \in Nested})

\* the dict objects of a written-out mapping, the top one at addr
RECURSIVE Alloc(_, _), AllocNested(_, _, _)
AllocNested(d, addr, i) ==
  IF i > Len(d) THEN <<>>
  ELSE (IF d[i].v.kind = "lit"
          THEN Alloc(d[i].v.v, [o |-> addr.o, p |-> Append(addr.p, d[i].k)])
          ELSE <<>>) @@ AllocNested(d, addr, i + 1)

Alloc(d, addr) ==
  (addr :> [i \in DOMAIN d |->
              [k |-> d[i].k,
               v |-> IF d[i].v.kind = "lit"
                       THEN PyDict([o |-> addr.o, p |-> Append(addr.p, d[i].k)])
                       ELSE d[i].v]])
  @@ AllocNested(d, addr, 1)

\* an element whose tree() returns the dict object stored at addr
TreeElem(addr) == PyObj([tree |-> PyMethod("tree", addr)])

\* elements without a usable tree(): no such member, a tree() that returns
\* None, a member tree that is not callable
ObjNoTree == PyObj([a |-> PyInt(1)])
ObjNoneTree == PyObj([tree |-> PyMethod("tree_none", [o |-> 0, p |-> <<>>])])
ObjIntTree == PyObj([tree |-> PyInt(1)])
TreeLess == {ObjNoTree, ObjNoneTree, ObjIntTree}

\* oc.append(E(d)): a new element with its own tree
AppendTree(d) ==
  /\ Len(chain) = 1
  /\ Len(Receiver.v) < MaxElems
  /\ LET addr == [o |-> Len(Receiver.v) + 1, p |-> <<>>]
     IN /\ heap' = Alloc(d, addr) @@ Kept(heap)
        /\ chain' = <<Frame("new", "", <<>>, <<>>,
                            PyColl(Append(Receiver.v, TreeElem(addr))))>>
  /\ exc' = "none"
  /\ last' = Op("append", "", <<TreeElem([o |-> Len(Receiver.v) + 1, p |-> <<>>])>>,
                <<>>, Receiver)
  /\ calls' = <<>>
  /\ pre' = <<>>

\* oc.append(oc[i]): an element that is in the collection already
AppendAgain(i) ==
  /\ Len(chain) = 1
  /\ i \in DOMAIN Receiver.v
  /\ Len(Receiver.v) < MaxElems
  /\ append(Receiver.v[i])

\* oc.append(obj), obj without a usable tree()
AppendTreeless(obj) ==
  Len(chain) = 1 /\ Len(Receiver.v) < MaxElems /\ append(obj)

\* oc.collection_tree()
CallTree ==
  /\ Len(chain) = 1
  /\ Len(calls) < MaxCalls
  /\ LET out == collection_tree(heap, Receiver)
     IN /\ heap' = out.heap
        /\ chain' = <<[chain[1] EXCEPT !.val = out.self]>>
        /\ exc' = out.exc
        /\ calls' = Append(calls, [exc |-> out.exc, ret |-> out.ret])
  /\ last' = Op("collection_tree", "", <<>>, <<>>, Receiver)
  /\ pre' = heap

NextTree ==
  \/ \E d \in TreeLits : AppendTree(d)
  \/ \E i \in 1..MaxElems : AppendAgain(i)
  \/ \E obj \in TreeLess : AppendTreeless(obj)
  \/ CallTree

SpecTree == Init /\ [][NextTree]_vars

-----------------------------------------------------------------------------
(* Claims about the broadcast operations, checked under Spec *)

\* a name with a double underscore at both ends
Dunder(name) ==
  /\ Len(name) >= 2
  /\ SubSeq(name, 1, 2) = "__"
  /\ SubSeq(name, Len(name) - 1, Len(name)) = "__"

\* a name that is neither dunder-style nor one of the collection's own
Plain(name) == ~Dunder(name) /\ name \notin ClassNames

HasMember(obj, name) == getattr(obj, name).exc = "none"
Member(obj, name) == getattr(obj, name).ret

Returned == exc = "none" /\ Len(chain) >= 2 /\ Top.op = last.op
Result == Top.val.v
Before == last.val.v

\* C1: accessing a plain name on a collection never raises and returns a
\* collection of the same length that holds, at each position, the element's
\* member of that name when it has one and the boolean False when it has none
C1_AttributeBroadcast ==
  (last.op = "getattr" /\ Plain(last.name)) =>
    /\ Returned
    /\ Top.val.kind = "coll"
    /\ Len(Result) = Len(Before)
    /\ \A i \in DOMAIN Before :
         Result[i] = IF HasMember(Before[i], last.name)
                       THEN Member(Before[i], last.name) ELSE PyFalse

C1_Witness ==
  /\ last.op = "getattr" /\ Plain(last.name) /\ Returned
  /\ \E i, j \in DOMAIN Before :
       /\ HasMember(Before[i], last.name) /\ Result[i] # PyFalse
       /\ ~HasMember(Before[j], last.name) /\ Result[j] = PyFalse

\* C2: calling a collection returns a collection of the same length that
\* holds element(args) at each truthy position and None at each falsy one;
\* falsy elements are not called, so only a truthy element's call can raise
C2_CallBroadcast ==
  last.op = "call" =>
    LET callable(i) == call(Before[i], last.args).exc = "none"
        truthy(i) == Truthy(heap, Before[i])
    IN IF \A i \in DOMAIN Before : truthy(i) => callable(i)
         THEN /\ Returned
              /\ Top.val.kind = "coll"
              /\ Len(Result) = Len(Before)
              /\ \A i \in DOMAIN Before :
                   Result[i] = IF truthy(i)
                                 THEN call(Before[i], last.args).ret ELSE PyNone
         ELSE exc # "none"

C2_Witness ==
  /\ last.op = "call" /\ Returned
  /\ \E i, j \in DOMAIN Before :
       /\ Truthy(heap, Before[i]) /\ Result[i] # PyNone
       /\ ~Truthy(heap, Before[j]) /\ Result[j] = PyNone

\* the predicate f holds of x
Holds(f, x) == Truthy(heap, CallFunc(heap, f, x).ret)

\* the last two operations were x.filter(p).filter(q), the first on base
TwoFilters ==
  /\ last.op = "filter"
  /\ Len(chain) >= 2
  /\ chain[IF exc = "none" THEN Len(chain) - 1 ELSE Len(chain)].op = "filter"
  /\ Len(chain) >= (IF exc = "none" THEN 3 ELSE 2)

FirstFilter == chain[IF exc = "none" THEN Len(chain) - 1 ELSE Len(chain)]
Base == chain[IF exc = "none" THEN Len(chain) - 2 ELSE Len(chain) - 1].val

\* C6: filter returns the receiver's elements satisfying the predicate, each
\* occurrence once and in order, and leaves the receiver as it was; filtering
\* by p and then by q ends as filtering once by "p and q" does
C6_Filter ==
  /\ (last.op = "filter" /\ exc = "none") =>
       /\ Returned
       /\ Top.val.kind = "coll"
       /\ Result = SelectSeq(Before, LAMBDA x : Holds(last.f, x))
       /\ chain[Len(chain) - 1].val = last.val
  /\ (last.op = "filter" /\ exc # "none") => Top.val = last.val
  /\ TwoFilters =>
       LET once == filter(heap, Base, FirstFilter.f \o last.f)
       IN /\ once.exc = exc
          /\ exc = "none" => once.ret = Top.val

C6_Witness ==
  /\ TwoFilters /\ exc = "none"
  /\ FirstFilter.f # last.f
  /\ Len(Result) >= 1
  /\ Len(Result) < Len(Base.v)

\* the last two operations were x.b.c, both returning, with plain names
Chained ==
  /\ last.op = "getattr" /\ Returned
  /\ Len(chain) >= 3
  /\ chain[Len(chain) - 1].op = "getattr"
  /\ Plain(last.name) /\ Plain(chain[Len(chain) - 1].name)

Outer == chain[Len(chain) - 2].val.v
NameB == chain[Len(chain) - 1].name

\* a plain name asked of the result of a plain-name access never raises
ChainReturns ==
  (last.op = "getattr" /\ Plain(last.name) /\ Top.op = "getattr"
     /\ Plain(Top.name)) => exc = "none"

\* C7 as stated: coll.b.c is as long as coll, and where an element lacks b
\* both coll.b and coll.b.c hold False, for all plain names b and c
C7_AsStated ==
  /\ ChainReturns
  /\ Chained =>
       /\ Len(Result) = Len(Outer)
       /\ \A i \in DOMAIN Outer :
            ~HasMember(Outer[i], NameB) => Before[i] = PyFalse /\ Result[i] = PyFalse

\* C7, amended: coll.b.c is as long as coll, and where an element lacks b,
\* coll.b holds False and coll.b.c holds False's own member c when c names a
\* member of the boolean (real, denominator, ...), and False otherwise
C7_ChainedBroadcast ==
  /\ ChainReturns
  /\ Chained =>
       /\ Len(Result) = Len(Outer)
       /\ \A i \in DOMAIN Outer :
            ~HasMember(Outer[i], NameB) =>
              /\ Before[i] = PyFalse
              /\ Result[i] = IF last.name \in IntData \cup IntMethods
                               THEN IntMember(PyFalse, last.name) ELSE PyFalse

C7_Witness ==
  /\ Chained
  /\ \E i, j \in DOMAIN Outer :
       /\ ~HasMember(Outer[i], NameB) /\ Result[i] = PyFalse
       /\ HasMember(Outer[j], NameB) /\ Result[j] # PyFalse

\* C8: accessing a dunder name the class does not define raises
\* AttributeError, returns no collection and leaves the receiver as it was,
\* whatever members the elements have
C8_ReservedNames ==
  (last.op = "getattr" /\ Dunder(last.name) /\ last.name \notin ClassNames) =>
    /\ exc = "AttributeError"
    /\ ~(Top.op = "getattr" /\ Top.name = last.name)
    /\ Top.val = last.val

C8_Witness ==
  /\ last.op = "getattr" /\ last.name = "__foo__"
  /\ exc = "AttributeError"
  /\ \E i \in DOMAIN Before : HasMember(Before[i], "__foo__")

-----------------------------------------------------------------------------
(* Claims about collection_tree(), checked under SpecTree *)

PyAbsent == [kind |-> "absent", v |-> 0]

\* the key paths a tree of this model can have
Paths == UNION {[1..n -> Keys] : n \in 1..(Cardinality(Keys) + 1)}

\* what the mapping v holds under the key path p in heap h
RECURSIVE At(_, _, _)
At(h, v, p) ==
  IF p = <<>> THEN v
  ELSE IF v.kind = "dict" /\ HasKey(h[v.v], p[1])
    THEN At(h, GetItem(h[v.v], p[1]), Tail(p))
    ELSE PyAbsent

IsLeaf(v) == v.kind \notin {"dict", "absent"}
IsMapping(v) == v.kind = "dict"
Present(v) == v.kind # "absent"

\* a value without the identity of the dict object
Shape(v) == IF v.kind = "dict" THEN [kind |-> "dict", v |-> 0] ELSE v

\* the two mappings are equal, as == compares dicts
SameMapping(h1, v1, h2, v2) ==
  /\ Shape(v1) = Shape(v2)
  /\ \A p \in Paths : Shape(At(h1, v1, p)) = Shape(At(h2, v2, p))

\* what element obj's tree() returns, PyAbsent when it has no such member
TreeOf(obj) ==
  LET m == getattr(obj, "tree")
  IN IF m.exc # "none" THEN PyAbsent
     ELSE IF call(m.ret, <<>>).exc # "none" THEN PyAbsent
     ELSE call(m.ret, <<>>).ret

Called == last.op = "collection_tree"
Coll == last.val.v
Outcome == calls[Len(calls)]
Returns == Called /\ Outcome.exc = "none"
Trees == [i \in DOMAIN Coll |-> TreeOf(Coll[i])]

\* C3 as stated: when every key path that two elements' trees share holds a
\* non-mapping value in both or a mapping in both, collection_tree() raises
\* nothing and each leaf of the result is the one of the first element that
\* has its path
C3_FirstLeafWins ==
  (/\ Called
   /\ \A i \in DOMAIN Coll : IsMapping(Trees[i])
   /\ \A i, j \in DOMAIN Coll : \A p \in Paths :
        IsLeaf(At(pre, Trees[i], p)) => ~IsMapping(At(pre, Trees[j], p))) =>
    /\ Outcome.exc = "none"
    /\ \A i \in DOMAIN Coll : \A p \in Paths :
         (/\ IsLeaf(At(pre, Trees[i], p))
          /\ \A j \in 1..(i - 1) : ~Present(At(pre, Trees[j], p))) =>
           At(heap, Outcome.ret, p) = At(pre, Trees[i], p)

NoLeafShared ==
  \A i, j \in DOMAIN Coll : \A p \in Paths :
    (i # j /\ IsLeaf(At(pre, Trees[i], p))) => ~Present(At(pre, Trees[j], p))

\* C5: when the elements' trees share no key path that holds a non-mapping
\* value, collection_tree() returns the recursive union of the trees: exactly
\* the key paths of some tree, each leaf with that tree's value
C5_DeepMerge ==
  (/\ Called
   /\ \A i \in DOMAIN Coll : IsMapping(Trees[i])
   /\ NoLeafShared) =>
    /\ Outcome.exc = "none"
    /\ \A p \in Paths :
         LET got == At(heap, Outcome.ret, p)
         IN /\ Present(got) <=> \E i \in DOMAIN Coll : Present(At(pre, Trees[i], p))
            /\ \A i \in DOMAIN Coll :
                 Present(At(pre, Trees[i], p)) =>
                   Shape(got) = Shape(At(pre, Trees[i], p))
    /\ Coll = <<>> => heap[Outcome.ret.v] = <<>>

\* element i is the first whose tree has key k, and holds a mapping there
FirstWithMapping(i, k) ==
  /\ IsMapping(Trees[i])
  /\ IsMapping(At(pre, Trees[i], <<k>>))
  /\ \A j \in 1..(i - 1) : ~Present(At(pre, Trees[j], <<k>>))

\* C9: collection_tree() leaves the top-level mapping of every element's
\* tree as it was and returns a new top-level mapping; a nested mapping is in
\* the result by reference: under a key first supplied by element i the
\* result holds i's own nested dict object, which has received the sub-keys
\* of the later elements' mappings under that key
C9_MergeAliasing ==
  Called =>
    /\ \A i \in DOMAIN Coll :
         IsMapping(Trees[i]) => heap[Trees[i].v] = pre[Trees[i].v]
    /\ Outcome.exc = "none" =>
         /\ Outcome.ret.kind = "dict"
         /\ Outcome.ret.v \notin DOMAIN pre
         /\ \A i \in DOMAIN Coll : \A k \in Keys :
              FirstWithMapping(i, k) =>
                LET own == At(pre, Trees[i], <<k>>)
                IN /\ At(heap, Outcome.ret, <<k>>) = own
                   /\ \A j \in DOMAIN Coll : \A k2 \in Keys :
                        (j > i /\ IsMapping(At(pre, Trees[j], <<k>>))
                           /\ Present(At(pre, Trees[j], <<k, k2>>))) =>
                          HasKey(heap[own.v], k2)

C9_Witness ==
  /\ Returns
  /\ \E i, j \in DOMAIN Coll : \E k, k2 \in Keys :
       /\ j > i
       /\ FirstWithMapping(i, k)
       /\ Present(At(pre, Trees[j], <<k, k2>>))
       /\ ~HasKey(pre[At(pre, Trees[i], <<k>>).v], k2)
       /\ HasKey(heap[At(pre, Trees[i], <<k>>).v], k2)
       /\ At(heap, Outcome.ret, <<k>>) = At(heap, Trees[i], <<k>>)

\* C10 as stated: when a collection_tree() call returns, the call that
\* follows it at once returns too, with an equal mapping
C10_Repeatable ==
  (Called /\ Len(calls) >= 2 /\ calls[Len(calls) - 1].exc = "none") =>
    /\ Outcome.exc = "none"
    /\ SameMapping(heap, Outcome.ret, heap, calls[Len(calls) - 1].ret)

====
